---------------------------- MODULE Spec2Model ----------------------------
(***************************************************************************)
(* Model of the map generation pipeline of map-gen:                        *)
(*   createRandom, generateNoiseMap, generateRivers, placeCities           *)
(*   (src/utils/noise) and their caller generateMap (MapGenerator.tsx).    *)
(*                                                                         *)
(* Numbers.  TLC integers are 32 bit, so                                   *)
(*  - the 32 bit generator state is a pair <<hi, lo>> of 16 bit limbs;     *)
(*  - a raw noise sum (a double) is a pair <<u, t>> standing for           *)
(*    u * grain + t * Number.MIN_VALUE: u counts the grain of the          *)
(*    sampler's sums, t counts denormal steps, and t is absorbed by        *)
(*    rounding as soon as u # 0;                                           *)
(*  - a normalised height is a fraction <<n, d>> (d > 0), with <<0, 0>>    *)
(*    for NaN (0/0) and <<1, 0>> for Infinity (x/0, x > 0).                *)
(***************************************************************************)
EXTENDS Integers, Sequences, FiniteSets

\* ------------------------------------------------------------------ bounds
\* raw noise sums range over -MaxRaw..MaxRaw grains
MaxRaw == 2
\* number of cells of the largest grid the noise phase is explored on
MaxNoiseCells == 4
\* number of pipeline runs (generateMap calls) explored
MaxRuns == 2
\* largest riverCount and minRiverLength of the river phase explored alone
MaxRiverCount == 2
MaxMinLength == 3
\* largest cityCount of the city phase explored alone
MaxCityCount == 3

\* ------------------------------------------------------- program constants
Limb == 65536
\* 1664525 = 25 * 65536 + 26125, 1013904223 = 15470 * 65536 + 62303
MulHi == 25
MulLo == 26125
IncHi == 15470
IncLo == 62303

\* ------------------------------------------------------------------ state
VARIABLES
    settings,        \* MapSettings: seed, width, height, riverCount, minRiverLength, cityCount
    octaveSum,       \* what the simplex sampler makes noiseHeight for each cell (environment)
    pc,              \* position in generateMap / the running function
    run,             \* number of the current generateMap call
    noiseMap,        \* generateNoiseMap: raw sums, then normalised heights
    maxNoiseHeight, minNoiseHeight,
    i,               \* cell index of the two loops of generateNoiseMap
    state,           \* the state of the closure made by createRandom
    rivers, r, startX, startY, attempts,
    river, currentX, currentY, terminated,
    cities, cityAttempts,
    prev             \* result of the previous generateMap call

vars == <<settings, octaveSum, pc, run, noiseMap, maxNoiseHeight, minNoiseHeight, i,
          state, rivers, r, startX, startY, attempts, river, currentX, currentY,
          terminated, cities, cityAttempts, prev>>

noiseVars == <<noiseMap, maxNoiseHeight, minNoiseHeight, i>>
riverVars == <<rivers, r, startX, startY, attempts, river, currentX, currentY, terminated>>
cityVars == <<cities, cityAttempts>>

\* ---------------------------------------------------------------- doubles
NumberMinValue == <<0, 1>>
NumberMaxValue == <<1000000, 0>>
RawZero == <<0, 0>>
NaN == <<0, 0>>
Infinity == <<1, 0>>

\* a < b on raw doubles
RawLess(a, b) == a[1] < b[1] \/ (a[1] = b[1] /\ a[2] < b[2])

MathMax(a, b) == IF RawLess(a, b) THEN b ELSE a

MathMin(a, b) == IF RawLess(b, a) THEN b ELSE a

\* a - b, rounded to nearest: a denormal part next to a normal one is lost
RawSub(a, b) ==
    IF a[1] - b[1] # 0 THEN <<a[1] - b[1], 0>> ELSE <<0, a[2] - b[2]>>

\* a / b for a >= 0, b >= 0, as a fraction
RawDiv(a, b) ==
    IF b = RawZero THEN (IF a = RawZero THEN NaN ELSE Infinity)
    ELSE IF a = RawZero THEN <<0, 1>>
    ELSE IF b[1] # 0 THEN (IF a[1] # 0 THEN <<a[1], b[1]>> ELSE <<0, 1>>)
    ELSE (IF a[1] # 0 THEN Infinity ELSE <<a[2], b[2]>>)

\* (value - min) / (max - min)
Normalize(v, mn, mx) == RawDiv(RawSub(v, mn), RawSub(mx, mn))

IsNaN(a) == a = NaN

\* a < b on heights; every comparison with NaN is false
Less(a, b) ==
    IF IsNaN(a) \/ IsNaN(b) THEN FALSE
    ELSE IF a[2] = 0 THEN FALSE
    ELSE IF b[2] = 0 THEN TRUE
    ELSE a[1] * b[2] < b[1] * a[2]

\* ------------------------------------------------------------ seeded PRNG
\* a generator whose seed is mixed with riverCount
createRandomPerCount(sd) ==
    <<(sd + settings.riverCount) \div Limb, (sd + settings.riverCount) % Limb>>

\* a generator that goes on from the state the last one was left in
createRandomShared(sd) == state

\* closure state after createRandom(seed)
createRandom(sd) == <<sd \div Limb, sd % Limb>>

\* state = (state * 1664525 + 1013904223) % 4294967296
NextState(s) ==
    LET low == s[2] * MulLo + IncLo
        high == s[1] * MulLo + s[2] * MulHi + IncHi + (low \div Limb)
    IN  <<high % Limb, low % Limb>>

\* Math.floor((state / 4294967296) * n)
Floor(s, n) == (s[1] * n + ((s[2] * n) \div Limb)) \div Limb

\* state / 4294967296 < 0.7, i.e. state <= 3006477107 = 45875 * 65536 + 13107
LessThanSeventy(s) == s[1] < 45875 \/ (s[1] = 45875 /\ s[2] <= 13107)

\* ------------------------------------------------------- generateNoiseMap
Cells == settings.width * settings.height

\* new Array(width * height).fill(0)
EmptyMap(n) == [k \in 1..n |-> RawZero]

\* first loop, one cell: noiseHeight, min/max tracking, store
NoiseCell ==
    /\ pc = "noise"
    /\ i < Cells
    /\ LET noiseHeight == octaveSum[i + 1] IN
        /\ maxNoiseHeight' = MathMax(maxNoiseHeight, noiseHeight)
        /\ minNoiseHeight' = MathMin(minNoiseHeight, noiseHeight)
        /\ noiseMap' = [noiseMap EXCEPT ![i + 1] = noiseHeight]
    /\ i' = IF i + 1 < Cells THEN i + 1 ELSE 0
    /\ pc' = IF i + 1 < Cells THEN "noise" ELSE "normalize"
    /\ UNCHANGED <<settings, octaveSum, run, state, riverVars, cityVars, prev>>

\* second loop, one cell: noiseMap[i] = (noiseMap[i] - min) / (max - min)
NormalizeCell ==
    /\ pc = "normalize"
    /\ i < Cells
    /\ noiseMap' = [noiseMap EXCEPT
            ![i + 1] = Normalize(noiseMap[i + 1], minNoiseHeight, maxNoiseHeight)]
    /\ i' = i + 1
    /\ pc' = IF i + 1 < Cells THEN "normalize" ELSE "normalized"
    /\ UNCHANGED <<settings, octaveSum, run, maxNoiseHeight, minNoiseHeight,
                   state, riverVars, cityVars, prev>>

NoiseNext == NoiseCell \/ NormalizeCell

\* --------------------------------------------------------- generateRivers
\* the do-while of the start search gives up at this many samples
StartSamples == 100
\* the walk stops at this many stored points
RiverCap == 1000

Tenth(k) == <<k, 10>>

getIndex(x, y) == y * settings.width + x

OutOfBounds(x, y) ==
    x < 0 \/ x >= settings.width \/ y < 0 \/ y >= settings.height

\* out of bounds counts as height 0, the lowest ground
getHeightLowEdge(x, y) ==
    IF OutOfBounds(x, y) THEN <<0, 1>> ELSE noiseMap[getIndex(x, y) + 1]

\* out of bounds counts as height 1
getHeight(x, y) == IF OutOfBounds(x, y) THEN <<1, 1>> ELSE noiseMap[getIndex(x, y) + 1]

\* getHeight < 0.6 || getHeight > 0.8
BadStart(x, y) == Less(getHeight(x, y), Tenth(6)) \/ Less(Tenth(8), getHeight(x, y))

\* the (nx, ny) of the neighbour loops, in the order the loops visit them
Neighbours ==
    << <<-1, -1>>, <<0, -1>>, <<1, -1>>, <<-1, 0>>, <<1, 0>>, <<-1, 1>>, <<0, 1>>, <<1, 1>> >>

\* neighborHeight < lowestHeight
Lower(neighborHeight, lowestHeight) == Less(neighborHeight, lowestHeight)

NeighbourHeight(cx, cy, k) == getHeight(cx + Neighbours[k][1], cy + Neighbours[k][2])

\* what the neighbour loops leave in <<lowestX, lowestY, lowestHeight>> when
\* lowestHeight starts at h: a neighbour replaces the lowest so far only when
\* strictly lower, so the loops end on the first neighbour, in visiting
\* order, of the least height among those lower than h, and on the current
\* cell when there is none
LowestBelow(cx, cy, h) ==
    LET below == {k \in 1..Len(Neighbours) : Lower(NeighbourHeight(cx, cy, k), h)}
        least == {k \in below : \A j \in below :
                     ~Lower(NeighbourHeight(cx, cy, j), NeighbourHeight(cx, cy, k))}
    IN  IF below = {} THEN <<cx, cy, h>>
        ELSE LET k == CHOOSE m \in least : \A j \in least : m <= j
             IN  <<cx + Neighbours[k][1], cy + Neighbours[k][2], NeighbourHeight(cx, cy, k)>>

\* lowestHeight starts at 1, the height of an out of bounds cell
LowestFromOne(cx, cy) == LowestBelow(cx, cy, <<1, 1>>)

\* lowestHeight starts at the height of the current cell
Lowest(cx, cy) == LowestBelow(cx, cy, getHeight(cx, cy))

\* river.includes(index)
Includes(path, index) == \E k \in 1..Len(path) : path[k] = index

\* generateMap calls generateRivers: fresh generator, empty result
CallGenerateRivers ==
    /\ pc = "normalized"
    /\ state' = createRandom(settings.seed)
    /\ rivers' = <<>>
    /\ r' = 0
    /\ pc' = "rivers"
    /\ UNCHANGED <<settings, octaveSum, run, noiseVars, startX, startY, attempts,
                   river, currentX, currentY, terminated, cityVars, prev>>

\* head of one river attempt: the first (startX, startY), attempts = 0
RiverAttempt ==
    /\ pc = "rivers"
    /\ r < settings.riverCount
    /\ LET s1 == NextState(state)
           s2 == NextState(s1)
       IN  /\ startX' = Floor(s1, settings.width)
           /\ startY' = Floor(s2, settings.height)
           /\ state' = s2
    /\ attempts' = 0
    /\ pc' = "search"
    /\ UNCHANGED <<settings, octaveSum, run, noiseVars, rivers, r,
                   river, currentX, currentY, terminated, cityVars, prev>>

\* the loop condition of the start search
SearchAgain(x, y, n) == BadStart(x, y) /\ n < StartSamples

\* one pass of the do-while: sample, count, test
SampleStart ==
    /\ pc = "search"
    /\ LET s1 == NextState(state)
           s2 == NextState(s1)
           x == Floor(s1, settings.width)
           y == Floor(s2, settings.height)
       IN  /\ startX' = x
           /\ startY' = y
           /\ state' = s2
           /\ attempts' = attempts + 1
           /\ pc' = IF SearchAgain(x, y, attempts + 1) THEN "search" ELSE "searched"
    /\ UNCHANGED <<settings, octaveSum, run, noiseVars, rivers, r,
                   river, currentX, currentY, terminated, cityVars, prev>>

\* if (attempts >= 100) continue
GiveUp(n) == n >= StartSamples

SkipRiver ==
    /\ pc = "searched"
    /\ GiveUp(attempts)
    /\ r' = r + 1
    /\ pc' = "rivers"
    /\ UNCHANGED <<settings, octaveSum, run, noiseVars, state, rivers, startX, startY,
                   attempts, river, currentX, currentY, terminated, cityVars, prev>>

\* the walk starts on the accepted point
StartWalk ==
    /\ pc = "searched"
    /\ ~GiveUp(attempts)
    /\ river' = <<getIndex(startX, startY)>>
    /\ currentX' = startX
    /\ currentY' = startY
    /\ terminated' = FALSE
    /\ pc' = "walk"
    /\ UNCHANGED <<settings, octaveSum, run, noiseVars, state, rivers, r, startX, startY,
                   attempts, cityVars, prev>>

\* a walk loop that tests the cap alone
WalkingUntilCap == Len(river) < RiverCap

\* condition of the walk loop
Walking == ~terminated /\ Len(river) < RiverCap

\* one pass of the walk loop
WalkStep ==
    /\ pc = "walk"
    /\ Walking
    /\ LET low == Lowest(currentX, currentY)
           lowestX == low[1]
           lowestY == low[2]
       IN  IF lowestX = currentX /\ lowestY = currentY
           THEN /\ terminated' = TRUE
                /\ UNCHANGED <<currentX, currentY, river>>
           ELSE /\ currentX' = lowestX
                /\ currentY' = lowestY
                /\ IF OutOfBounds(lowestX, lowestY)
                   THEN terminated' = TRUE /\ UNCHANGED river
                   ELSE IF Includes(river, getIndex(lowestX, lowestY))
                        THEN terminated' = TRUE /\ UNCHANGED river
                        ELSE /\ river' = Append(river, getIndex(lowestX, lowestY))
                             /\ UNCHANGED terminated
    /\ UNCHANGED <<settings, octaveSum, pc, run, noiseVars, state, rivers, r,
                   startX, startY, attempts, cityVars, prev>>

\* a retention test that keeps every path
LongEnoughNonEmpty(path) == Len(path) > 0

\* river.length >= minRiverLength
LongEnough(path) == Len(path) >= settings.minRiverLength

\* after the walk: keep the river if it is long enough, next attempt
KeepRiver ==
    /\ pc = "walk"
    /\ ~Walking
    /\ rivers' = IF LongEnough(river) THEN Append(rivers, river) ELSE rivers
    /\ r' = r + 1
    /\ pc' = "rivers"
    /\ UNCHANGED <<settings, octaveSum, run, noiseVars, state, startX, startY, attempts,
                   river, currentX, currentY, terminated, cityVars, prev>>

\* return rivers
ReturnRivers ==
    /\ pc = "rivers"
    /\ ~(r < settings.riverCount)
    /\ pc' = "traced"
    /\ UNCHANGED <<settings, octaveSum, run, noiseVars, state, riverVars, cityVars, prev>>

RiversNext ==
    \/ RiverAttempt
    \/ SampleStart
    \/ SkipRiver
    \/ StartWalk
    \/ WalkStep
    \/ KeepRiver
    \/ ReturnRivers

\* ------------------------------------------------------------ placeCities
\* isNearRiver(x, y, 3) looks at the square of this radius
RiverRadius == 3
\* attempts allowed per requested city
AttemptsPerCity == 10

\* new Set(rivers.flat())
RiverPoints(rs) == UNION {{rs[a][b] : b \in 1..Len(rs[a])} : a \in 1..Len(rs)}

isNearRiver(x, y, distance) ==
    \E ny \in -distance..distance, nx \in -distance..distance :
        /\ ~OutOfBounds(x + nx, y + ny)
        /\ (y + ny) * settings.width + (x + nx) \in RiverPoints(rivers)

\* terrainHeight < 0.3 || terrainHeight > 0.7
BadTerrain(terrainHeight) == Less(terrainHeight, Tenth(3)) \/ Less(Tenth(7), terrainHeight)

\* Math.sqrt((city.x - x)^2 + (city.y - y)^2) < width / 10, both sides squared
Near(city, x, y) ==
    100 * ((city.x - x) * (city.x - x) + (city.y - y) * (city.y - y))
        < settings.width * settings.width

\* a spacing test against the last placed city alone
TooCloseToLast(cs, x, y) == Len(cs) > 0 /\ Near(cs[Len(cs)], x, y)

\* the loop over the placed cities
TooClose(cs, x, y) == \E k \in 1..Len(cs) : Near(cs[k], x, y)

\* terrainHeight > 0.4 && terrainHeight < 0.6
Ideal(terrainHeight) == Less(Tenth(4), terrainHeight) /\ Less(terrainHeight, Tenth(6))

\* 1 + random() * 2, + 1 near a river, + 0.5 on ideal terrain, in units of
\* 2^-32 as limbs <<top, hi, lo>>
CitySize(s, nearRiver, terrainHeight) ==
    LET low == 2 * s[2]
        mid == 2 * s[1] + (low \div Limb)
            + (IF Ideal(terrainHeight) THEN Limb \div 2 ELSE 0)
        top == 1 + (mid \div Limb) + (IF nearRiver THEN 1 ELSE 0)
    IN  <<top, mid % Limb, low % Limb>>

\* generateMap calls placeCities: fresh generator, empty result
CallPlaceCities ==
    /\ pc = "traced"
    /\ state' = createRandom(settings.seed)
    /\ cities' = <<>>
    /\ cityAttempts' = 0
    /\ pc' = "cities"
    /\ UNCHANGED <<settings, octaveSum, run, noiseVars, riverVars, prev>>

\* a placement loop that goes on while placed <= cityCount
PlacingInclusive(placed, n) ==
    placed <= settings.cityCount /\ n < settings.cityCount * AttemptsPerCity

\* condition of the placement loop
Placing(placed, n) ==
    placed < settings.cityCount /\ n < settings.cityCount * AttemptsPerCity

\* the candidate of this pass of the loop: <<x, y, generator state after the two draws>>
Candidate ==
    LET s1 == NextState(state)
        s2 == NextState(s1)
    IN  <<Floor(s1, settings.width), Floor(s2, settings.height), s2>>

CandidateHeight == noiseMap[Candidate[2] * settings.width + Candidate[1] + 1]

CandidateNearRiver == isNearRiver(Candidate[1], Candidate[2], RiverRadius)

\* the generator state after the river test: random() is called only when
\* the candidate is not near a river
AfterRiverTest == IF CandidateNearRiver THEN Candidate[3] ELSE NextState(Candidate[3])

\* !nearRiver && random() < 0.7
SkippedAwayFromRiver == ~CandidateNearRiver /\ LessThanSeventy(AfterRiverTest)

\* a pass that rejects the candidate for its terrain
CityRejectTerrain ==
    /\ pc = "cities"
    /\ Placing(Len(cities), cityAttempts)
    /\ BadTerrain(CandidateHeight)
    /\ cityAttempts' = cityAttempts + 1
    /\ state' = Candidate[3]
    /\ UNCHANGED <<settings, octaveSum, pc, run, noiseVars, riverVars, cities, prev>>

\* a pass that rejects a candidate away from every river, 70% of the time
CityRejectNoRiver ==
    /\ pc = "cities"
    /\ Placing(Len(cities), cityAttempts)
    /\ ~BadTerrain(CandidateHeight)
    /\ SkippedAwayFromRiver
    /\ cityAttempts' = cityAttempts + 1
    /\ state' = AfterRiverTest
    /\ UNCHANGED <<settings, octaveSum, pc, run, noiseVars, riverVars, cities, prev>>

\* a pass that rejects a candidate too close to a placed city
CityRejectTooClose ==
    /\ pc = "cities"
    /\ Placing(Len(cities), cityAttempts)
    /\ ~BadTerrain(CandidateHeight)
    /\ ~SkippedAwayFromRiver
    /\ TooClose(cities, Candidate[1], Candidate[2])
    /\ cityAttempts' = cityAttempts + 1
    /\ state' = AfterRiverTest
    /\ UNCHANGED <<settings, octaveSum, pc, run, noiseVars, riverVars, cities, prev>>

\* a pass that places the candidate
CityPlace ==
    /\ pc = "cities"
    /\ Placing(Len(cities), cityAttempts)
    /\ ~BadTerrain(CandidateHeight)
    /\ ~SkippedAwayFromRiver
    /\ ~TooClose(cities, Candidate[1], Candidate[2])
    /\ cityAttempts' = cityAttempts + 1
    /\ state' = NextState(AfterRiverTest)
    /\ cities' = Append(cities,
            [x |-> Candidate[1], y |-> Candidate[2],
             size |-> CitySize(NextState(AfterRiverTest), CandidateNearRiver, CandidateHeight)])
    /\ UNCHANGED <<settings, octaveSum, pc, run, noiseVars, riverVars, prev>>

\* return cities
ReturnCities ==
    /\ pc = "cities"
    /\ ~Placing(Len(cities), cityAttempts)
    /\ pc' = "done"
    /\ UNCHANGED <<settings, octaveSum, run, noiseVars, state, riverVars, cityVars, prev>>

CitiesNext ==
    \/ CityRejectTerrain
    \/ CityRejectNoRiver
    \/ CityRejectTooClose
    \/ CityPlace
    \/ ReturnCities

\* ------------------------------------------------------------ generateMap
\* riverCount values of the whole pipeline
PipelineRiverCounts == {0, 3, 5}

\* the settings change and the effect calls generateMap again: the previous
\* result is remembered, every local of the previous call is gone
Regenerate ==
    /\ pc = "done"
    /\ run < MaxRuns
    /\ prev' = [noiseMap |-> noiseMap, rivers |-> rivers, cities |-> cities,
                riverCount |-> settings.riverCount]
    /\ \E rc \in PipelineRiverCounts : settings' = [settings EXCEPT !.riverCount = rc]
    /\ run' = run + 1
    /\ pc' = "noise"
    /\ noiseMap' = EmptyMap(Cells)
    /\ maxNoiseHeight' = NumberMinValue
    /\ minNoiseHeight' = NumberMaxValue
    /\ i' = 0
    /\ rivers' = <<>> /\ r' = 0 /\ startX' = 0 /\ startY' = 0 /\ attempts' = 0
    /\ river' = <<>> /\ currentX' = 0 /\ currentY' = 0 /\ terminated' = FALSE
    /\ cities' = <<>> /\ cityAttempts' = 0
    /\ UNCHANGED <<octaveSum, state>>

\* one call of generateMap
RunNext ==
    \/ NoiseNext
    \/ CallGenerateRivers
    \/ RiversNext
    \/ CallPlaceCities
    \/ CitiesNext

Next == RunNext \/ Regenerate

\* ------------------------------------------------------------ initial states
RawValues == {<<u, 0>> : u \in -MaxRaw..MaxRaw}

NoPrev == [noiseMap |-> <<>>, rivers |-> <<>>, cities |-> <<>>, riverCount |-> 0]

\* variables of the phases that have not started
Idle ==
    /\ state = <<0, 0>>
    /\ rivers = <<>> /\ r = 0 /\ startX = 0 /\ startY = 0 /\ attempts = 0
    /\ river = <<>> /\ currentX = 0 /\ currentY = 0 /\ terminated = FALSE
    /\ cities = <<>> /\ cityAttempts = 0
    /\ prev = NoPrev

\* entry of generateNoiseMap
NoiseEntry ==
    /\ pc = "noise"
    /\ run = 1
    /\ noiseMap = EmptyMap(Cells)
    /\ maxNoiseHeight = NumberMinValue
    /\ minNoiseHeight = NumberMaxValue
    /\ i = 0

NoiseDims == {d \in (1..MaxNoiseCells) \X (1..MaxNoiseCells) : d[1] * d[2] <= MaxNoiseCells}

\* generateNoiseMap alone, on every raw field of every small grid
InitNoise ==
    /\ \E d \in NoiseDims :
          settings = [seed |-> 123456, width |-> d[1], height |-> d[2],
                      riverCount |-> 0, minRiverLength |-> 0, cityCount |-> 0]
    /\ octaveSum \in [1..Cells -> RawValues]
    /\ NoiseEntry
    /\ Idle

SpecNoise == InitNoise /\ [][NoiseNext]_vars

\* 123456 is the default seed of createRandom; with 199 the first sample that
\* hits cell 10 of a 4 x 4 grid is the 100th, with 115 cell 11 is first hit
\* by the 99th
Seeds == {123456, 199, 115}

\* heights of the fields of the river phase, in tenths: 0.6 and 0.8 are the
\* ends of the source band
RiverLevels == {0, 3, 6, 8, 10}

RiverDims == {<<2, 2>>, <<3, 1>>}

\* a 4 x 4 field whose only cell in the source band is cell c
OneSource(c) == [k \in 1..16 |-> IF k = c + 1 THEN Tenth(7) ELSE Tenth(3)]

\* the height fields of the river phase: <<width, height, field>>
RiverFields ==
    UNION {{<<d[1], d[2], f>> : f \in [1..(d[1] * d[2]) -> {Tenth(k) : k \in RiverLevels}]}
           : d \in RiverDims}
    \cup {<<4, 4, OneSource(c)>> : c \in {10, 11}}

\* generateNoiseMap has returned f
NoiseReturned(f) ==
    /\ run = 1
    /\ noiseMap = f
    /\ octaveSum = [k \in 1..Len(f) |-> RawZero]
    /\ maxNoiseHeight = NumberMinValue
    /\ minNoiseHeight = NumberMaxValue
    /\ i = Len(f)

\* generateRivers alone, on the fields of RiverFields
InitRivers ==
    /\ \E g \in RiverFields, sd \in Seeds, rc \in 0..MaxRiverCount, ml \in 1..MaxMinLength :
          /\ settings = [seed |-> sd, width |-> g[1], height |-> g[2],
                         riverCount |-> rc, minRiverLength |-> ml, cityCount |-> 0]
          /\ NoiseReturned(g[3])
    /\ pc = "normalized"
    /\ Idle

SpecRivers == InitRivers /\ [][CallGenerateRivers \/ RiversNext]_vars

\* generateRivers has returned rs
RiversReturned(rs) ==
    /\ pc = "traced"
    /\ state = <<0, 0>>
    /\ rivers = rs /\ r = 0 /\ startX = 0 /\ startY = 0 /\ attempts = 0
    /\ river = <<>> /\ currentX = 0 /\ currentY = 0 /\ terminated = FALSE
    /\ cities = <<>> /\ cityAttempts = 0
    /\ prev = NoPrev

\* terrain patterns of the city phase, in tenths, by cell number
Terrain(p, k) ==
    CASE p = 1 -> 5
      [] p = 2 -> (7 * k) % 11
      [] p = 3 -> IF k % 2 = 0 THEN 3 ELSE 7
      [] OTHER -> IF k % 3 = 0 THEN 2 ELSE 5

CityDims == {<<20, 1>>, <<12, 2>>, <<4, 4>>}

\* river paths handed to placeCities
CityRivers == {<<>>, << <<0, 1>> >>, << <<5, 6, 7>>, <<2>> >>}

\* placeCities alone
InitCities ==
    /\ \E d \in CityDims, p \in 1..4, sd \in Seeds, cc \in 0..MaxCityCount, rs \in CityRivers :
          /\ settings = [seed |-> sd, width |-> d[1], height |-> d[2],
                         riverCount |-> Len(rs), minRiverLength |-> 1, cityCount |-> cc]
          /\ NoiseReturned([k \in 1..(d[1] * d[2]) |-> Tenth(Terrain(p, k))])
          /\ RiversReturned(rs)

SpecCities == InitCities /\ [][CallPlaceCities \/ CitiesNext]_vars

\* raw noise fields of the whole pipeline: <<width, height, sums>>
PipelineFields ==
    { <<4, 1, <<0, 3, 3, 4>> >>,
      <<2, 2, <<-4, -3, -2, -1>> >>,
      <<2, 2, <<1, 1, 1, 1>> >>,
      <<3, 2, <<0, 2, 4, 3, 2, 1>> >>,
      <<1, 1, <<0>> >> }

\* generateMap from its first line
Init ==
    /\ \E g \in PipelineFields, sd \in Seeds, rc \in PipelineRiverCounts,
          ml \in 1..2, cc \in {0, 2} :
          /\ settings = [seed |-> sd, width |-> g[1], height |-> g[2],
                         riverCount |-> rc, minRiverLength |-> ml, cityCount |-> cc]
          /\ octaveSum = [k \in 1..Len(g[3]) |-> <<g[3][k], 0>>]
    /\ NoiseEntry
    /\ Idle

Spec == Init /\ [][Next]_vars

\* one call of generateMap; it is synchronous code with no suspension point,
\* so it keeps taking steps while it has one to take
FairSpec == Init /\ [][RunNext]_vars /\ WF_vars(RunNext)

\* ================================================================= claims
\* value of a height as a comparison of fractions
IsZero(a) == a[2] # 0 /\ a[1] = 0
IsOne(a) == a[2] # 0 /\ a[1] = a[2]
\* a <= b on heights that are numbers
AtMost(a, b) == a[2] # 0 /\ b[2] # 0 /\ a[1] * b[2] <= b[1] * a[2]

HeightAt(index) == noiseMap[index + 1]

\* the raw field has one value in every cell
ConstantRaw == \A a, b \in 1..Cells : octaveSum[a] = octaveSum[b]

\* p is a prefix of q
IsPrefix(p, q) == Len(p) <= Len(q) /\ \A k \in 1..Len(p) : p[k] = q[k]

\* the first n elements of q, or all of q when it has fewer
FirstN(q, n) == SubSeq(q, 1, IF Len(q) < n THEN Len(q) ELSE n)

\* C1: every path generateRivers returns has at least minRiverLength points,
\* holds no grid index twice and holds only indices in [0, width * height).
C1_RiverValidity ==
    \A a \in 1..Len(rivers) :
        /\ Len(rivers[a]) >= settings.minRiverLength
        /\ \A j, k \in 1..Len(rivers[a]) : j # k => rivers[a][j] # rivers[a][k]
        /\ \A k \in 1..Len(rivers[a]) : rivers[a][k] \in 0..(Cells - 1)

\* generateRivers has returned a path of three cells or more after dropping an
\* attempt under a minimum length above 1
C1_Witness ==
    /\ pc = "traced"
    /\ settings.minRiverLength >= 2
    /\ Len(rivers) < r
    /\ \E a \in 1..Len(rivers) : Len(rivers[a]) >= 3

\* C2: at every point of the placement loop and in its result, two distinct
\* placed cities are at Euclidean distance >= width / 10.
C2_CitySpacing ==
    \A a, b \in 1..Len(cities) :
        a # b => 100 * ((cities[a].x - cities[b].x) * (cities[a].x - cities[b].x)
                        + (cities[a].y - cities[b].y) * (cities[a].y - cities[b].y))
                    >= settings.width * settings.width

\* two cities are placed on a grid where width / 10 exceeds one cell, and the
\* loop is about to reject a candidate on another cell than theirs for being
\* too close
C2_Witness ==
    /\ pc = "cities"
    /\ settings.width >= 11
    /\ Len(cities) >= 2
    /\ Placing(Len(cities), cityAttempts)
    /\ ~BadTerrain(CandidateHeight)
    /\ ~SkippedAwayFromRiver
    /\ TooClose(cities, Candidate[1], Candidate[2])
    /\ \A k \in 1..Len(cities) :
          cities[k].x # Candidate[1] \/ cities[k].y # Candidate[2]

\* C3: after normalisation of a raw field that is not constant, the smallest
\* cell is 0 and the largest cell is 1, whatever the signs of the raw sums.
C3_MinZeroMaxOne ==
    (pc = "normalized" /\ ~ConstantRaw) =>
        /\ \E c \in 1..Cells : IsZero(noiseMap[c])
        /\ \E c \in 1..Cells : IsOne(noiseMap[c])
        /\ \A c \in 1..Cells : AtMost(<<0, 1>>, noiseMap[c]) /\ AtMost(noiseMap[c], <<1, 1>>)

\* C4: on a constant raw field generateNoiseMap returns 0 in every cell and
\* never divides by a zero range.
C4_ConstantFieldAllZero ==
    (pc = "normalized" /\ ConstantRaw) =>
        /\ RawSub(maxNoiseHeight, minNoiseHeight) # RawZero
        /\ \A c \in 1..Cells : IsZero(noiseMap[c])

\* C5: a river attempt is skipped only if none of its 100 sampled points lies
\* in [0.6, 0.8]; a point of the band found by the 100th sample is accepted.
C5_SkipOnlyIfNoneQualifies ==
    (pc = "searched" /\ GiveUp(attempts)) => BadStart(startX, startY)

\* C6 as stated: with one seed, the first 3 successful attempts of the run
\* with riverCount 5 are the whole output of the run with riverCount 3.
C6_FirstThreeSuccesses ==
    (pc = "done" /\ run > 1 /\ prev.riverCount = 3 /\ settings.riverCount = 5)
        => FirstN(rivers, 3) = prev.rivers

\* C6 as amended: the output of the run with riverCount 3 is a prefix of the
\* output of the run with riverCount 5, followed by at most 2 more paths.
C6_ShorterRunIsPrefix ==
    (pc = "done" /\ run > 1 /\ prev.riverCount = 3 /\ settings.riverCount = 5)
        => /\ IsPrefix(prev.rivers, rivers)
           /\ Len(rivers) <= Len(prev.rivers) + 2

\* a run with riverCount 5 has followed a run with riverCount 3 that kept a
\* river, and has kept more rivers than it
C6_Witness ==
    /\ pc = "done" /\ run > 1
    /\ prev.riverCount = 3 /\ settings.riverCount = 5
    /\ Len(prev.rivers) >= 1
    /\ Len(rivers) > Len(prev.rivers)

\* C7: along every retained path the height of a stored cell is at most the
\* height of the cell stored before it, for every consecutive pair but
\* possibly the last.
C7_MonotonicDescent ==
    \A a \in 1..Len(rivers) :
        \A k \in 1..(Len(rivers[a]) - 2) :
            AtMost(HeightAt(rivers[a][k + 1]), HeightAt(rivers[a][k]))

\* generateRivers has returned a path of three cells or more that goes
\* strictly down over its first pair
C7_Witness ==
    /\ pc = "traced"
    /\ \E a \in 1..Len(rivers) :
          /\ Len(rivers[a]) >= 3
          /\ Less(HeightAt(rivers[a][2]), HeightAt(rivers[a][1]))

\* C8: placeCities holds at most cityCount cities and runs at most
\* cityCount * 10 attempts, generateRivers holds at most riverCount paths, and
\* with riverCount = 0 and cityCount = 0 both results are empty.
C8_BoundedCounts ==
    /\ Len(cities) <= settings.cityCount
    /\ cityAttempts <= settings.cityCount * 10
    /\ Len(rivers) <= settings.riverCount
    /\ (pc = "done" /\ settings.riverCount = 0 /\ settings.cityCount = 0)
          => (rivers = <<>> /\ cities = <<>>)

\* a run has ended with as many cities and as many rivers as were asked for
C8_Witness ==
    /\ pc = "done"
    /\ settings.cityCount > 0 /\ Len(cities) = settings.cityCount
    /\ settings.riverCount > 0 /\ Len(rivers) = settings.riverCount

\* C9: every run noise -> rivers -> cities ends; a start search stops within
\* 100 samples, a walk within 1000 stored points, the placement within
\* cityCount * 10 attempts.
C9_Terminates ==
    /\ [](/\ attempts <= 100
          /\ Len(river) <= 1000
          /\ cityAttempts <= settings.cityCount * 10)
    /\ (pc = "noise" ~> pc = "done")

\* a run has ended after a start search that used its 100 samples and a
\* placement that used all its attempts
C9_Witness ==
    /\ pc = "done"
    /\ settings.riverCount > 0 /\ attempts = 100
    /\ settings.cityCount > 0 /\ cityAttempts = settings.cityCount * 10

\* C10: with the seed and the parameters fixed, a second run of the pipeline
\* returns the height field, the rivers and the cities of the first, and
\* generateRivers and placeCities each start from the seed itself.
C10_Deterministic ==
    /\ (pc = "done" /\ run > 1 /\ prev.riverCount = settings.riverCount)
          => /\ noiseMap = prev.noiseMap
             /\ rivers = prev.rivers
             /\ cities = prev.cities
    /\ (pc = "rivers" /\ r = 0)
          => state = <<settings.seed \div Limb, settings.seed % Limb>>
    /\ (pc = "cities" /\ cityAttempts = 0)
          => state = <<settings.seed \div Limb, settings.seed % Limb>>

\* a second run with the parameters of the first has ended with a river of
\* two cells or more and a city
C10_Witness ==
    /\ pc = "done" /\ run > 1
    /\ prev.riverCount = settings.riverCount
    /\ \E a \in 1..Len(rivers) : Len(rivers[a]) >= 2
    /\ Len(cities) >= 1

\* the walk stands on a cell none of whose 8 neighbours is strictly lower
AtSink ==
    /\ Lowest(currentX, currentY)[1] = currentX
    /\ Lowest(currentX, currentY)[2] = currentY

\* C11: on a field with values in [0, 1] a walk never takes the out of bounds
\* branch nor the already visited branch: it stays on the grid, every stored
\* step is strictly lower than the one before, the next step is either none
\* or a grid cell not yet in the path, and the walk is over only on a cell
\* with no strictly lower neighbour or at 1000 points.
C11_OnlySinkOrCapEndsWalk ==
    pc = "walk" =>
        /\ ~OutOfBounds(currentX, currentY)
        /\ \A k \in 1..(Len(river) - 1) :
              Less(HeightAt(river[k + 1]), HeightAt(river[k]))
        /\ Walking =>
              \/ AtSink
              \/ /\ ~OutOfBounds(Lowest(currentX, currentY)[1], Lowest(currentX, currentY)[2])
                 /\ ~Includes(river, getIndex(Lowest(currentX, currentY)[1],
                                               Lowest(currentX, currentY)[2]))
        /\ ~Walking => (AtSink \/ Len(river) >= RiverCap)

\* a walk of three cells or more has ended on a cell of the edge of the grid
\* that lies above height 0, so that an out of bounds neighbour was compared
C11_Witness ==
    /\ pc = "walk"
    /\ terminated
    /\ Len(river) >= 3
    /\ Less(<<0, 1>>, getHeight(currentX, currentY))
    /\ \E k \in 1..Len(Neighbours) :
          OutOfBounds(currentX + Neighbours[k][1], currentY + Neighbours[k][2])

=============================================================================
